---- MODULE Spec2Model ----
(***************************************************************************)
(* Ownership wrappers of smartptr.h: simple_ptr, member_ptr, value_ptr,     *)
(* clonable_ptr, counted_ptr and vector_member_ptrs.                       *)
(*                                                                         *)
(* Heap objects are identified by small integers (their addresses); NULL   *)
(* is address 0.  An object carries the intrusive field m_referenceCount   *)
(* and one payload field (val).  kind records who created an object:       *)
(*   "none"   - not allocated yet                                          *)
(*   "caller" - owned by the calling code (an object passed by reference,  *)
(*              or a raw pointer the caller holds)                         *)
(*   "heap"   - handed to a wrapper by pointer, or made by clone()         *)
(* nfree counts how many times delete was applied to the address.  The     *)
(* storage of a deleted object is indeterminate: delete leaves any value   *)
(* of Garbage in m_referenceCount and any value of Val in the payload.     *)
(***************************************************************************)
EXTENDS Integers, FiniteSets

\* ---------------------------------------------------------------- bounds
NObj == 3
NWrap == 2
MaxFree == 2
MaxSize == 2

NULL == 0

Obj == 1..NObj
Wrapper == 1..NWrap
Val == {0, 1}
Garbage == {-1, 0, 1}
Slot == 0..(MaxSize - 1)
Thread == {1, 2}

VARIABLES
    m_p,                \* counted_ptr::m_p of each counted_ptr instance
    live,               \* which counted_ptr instances are constructed
    m_referenceCount,   \* T::m_referenceCount of each object
    val,                \* payload of each object
    kind,               \* see above
    nfree,              \* number of delete calls on each address
    mem_p,              \* member_ptr::m_p of each member_ptr instance
    mem_st,             \* "none", "live" (constructed) or "dead" (destroyed)
    sp_p,               \* simple_ptr::m_p of each simple_ptr instance
    sp_st,              \* "none", "live" or "dead"
    asg,                \* the value_ptr / clonable_ptr operator= in progress
    v_st,               \* vector_member_ptrs: "none", "live" or "dead"
    m_size,             \* vector_member_ptrs::m_size
    m_ptr,              \* the m_p of each slot of the array m_ptr points to
    newPtr,             \* the m_p of each slot of the array resize() is filling
    rz,                 \* the resize() in progress
    thr,                \* the counted_ptr call each thread is inside
    overlap,            \* whether two threads were ever inside a call at once
    last                \* the call that produced this state, and what it returned

valueVars == <<asg>>
vectorVars == <<v_st, m_size, m_ptr, newPtr, rz>>
threadVars == <<thr, overlap>>

vars == <<m_p, live, m_referenceCount, val, kind, nfree, mem_p, mem_st, sp_p, sp_st,
          asg, v_st, m_size, m_ptr, newPtr, rz, thr, overlap, last>>

\* ------------------------------------------------------------ heap model
Heap == [rc |-> m_referenceCount, vl |-> val, kd |-> kind, nf |-> nfree]

HasFresh(h) == \E o \in Obj : h.kd[o] = "none"

\* operator new: the lowest address not yet in use
NewObj(h) == CHOOSE o \in Obj : h.kd[o] = "none" /\ \A q \in Obj : h.kd[q] = "none" => o <= q

\* delete o: the storage is freed; the count field of the freed storage is
\* indeterminate from then on (g)
DeleteObj(h, o, g) ==
    [h EXCEPT !.nf[o] = @ + 1, !.rc[o] = g]

\* delete p, for the wrappers that keep no count (delete NULL does nothing)
DeletePtr(h, p) ==
    IF p = NULL THEN h ELSE [h EXCEPT !.nf[p] = @ + 1]

\* T::clone(): a new object c, value-equal to src; the payload read from a
\* deleted src is indeterminate (v)
CloneObj(h, src, c, v) ==
    [h EXCEPT !.kd[c] = "heap",
              !.vl[c] = IF h.nf[src] > 0 THEN v ELSE h.vl[src],
              !.rc[c] = h.rc[src]]

\* (mutant) the decrement without the delete at 0
ReleaseHeld_NoDelete(h, p, g) ==
    IF p = NULL THEN h ELSE [h EXCEPT !.rc[p] = @ - 1]

\* if (m_p && --m_p->m_referenceCount == 0) delete m_p;
ReleaseHeld(h, p, g) ==
    IF p = NULL THEN h
    ELSE LET h1 == [h EXCEPT !.rc[p] = @ - 1]
         IN  IF h1.rc[p] = 0 THEN DeleteObj(h1, p, g) ELSE h1

\* whether ReleaseHeld deletes p, and the values delete can leave behind
Frees(p) == p # NULL /\ m_referenceCount[p] = 1
Scribble(p) == IF Frees(p) THEN Garbage ELSE {0}
\* the payloads clone() can read from src
Payload(src) == IF src # NULL /\ nfree[src] > 0 THEN Val ELSE {0}

\* the heap after a call
Store(h) ==
    /\ \A o \in Obj : h.nf[o] <= MaxFree
    /\ m_referenceCount' = h.rc
    /\ val' = h.vl
    /\ kind' = h.kd
    /\ nfree' = h.nf

\* the heap after a counted_ptr call, which touches no other wrapper
Commit(h) ==
    /\ Store(h)
    /\ UNCHANGED <<mem_p, mem_st, sp_p, sp_st>>
    /\ UNCHANGED <<valueVars, vectorVars, threadVars>>

Call(name, w, ret) == [op |-> name, w |-> w, ret |-> ret]

\* no operator= of a value_ptr is in progress
AsgIdle == [pc |-> "idle", w |-> 0, rhs |-> 0, old_p |-> NULL, temp |-> NULL]
\* no resize() is in progress
RzIdle == [pc |-> "idle", newSize |-> 0, i |-> 0, tmp |-> NULL,
           oldSize |-> 0, old |-> [s \in Slot |-> NULL], nf |-> [o \in Obj |-> 0]]
\* the thread is inside no counted_ptr call
ThrIdle == [pc |-> "idle", op |-> "none", w |-> 0, rhs |-> 0, p |-> NULL, reg |-> 0]

Init ==
    /\ m_p = [w \in Wrapper |-> NULL]
    /\ live = [w \in Wrapper |-> FALSE]
    /\ m_referenceCount = [o \in Obj |-> 0]
    /\ val = [o \in Obj |-> 0]
    /\ kind = [o \in Obj |-> "none"]
    /\ nfree = [o \in Obj |-> 0]
    /\ mem_p = [w \in Wrapper |-> NULL]
    /\ mem_st = [w \in Wrapper |-> "none"]
    /\ sp_p = [w \in Wrapper |-> NULL]
    /\ sp_st = [w \in Wrapper |-> "none"]
    /\ asg = AsgIdle
    /\ v_st = "none"
    /\ m_size = 0
    /\ m_ptr = [s \in Slot |-> NULL]
    /\ newPtr = [s \in Slot |-> NULL]
    /\ rz = RzIdle
    /\ thr = [t \in Thread |-> ThrIdle]
    /\ overlap = FALSE
    /\ last = Call("init", 0, NULL)

\* ------------------------------------------------------------ counted_ptr

\* counted_ptr(T *p) with p = NULL
CtorNull(w) ==
    /\ ~live[w]
    /\ live' = [live EXCEPT ![w] = TRUE]
    /\ m_p' = [m_p EXCEPT ![w] = NULL]
    /\ Commit(Heap)
    /\ last' = Call("ctor_null", w, NULL)

\* counted_ptr(T *p) with p = new T(x)
CtorRaw(w, x) ==
    /\ ~live[w]
    /\ HasFresh(Heap)
    /\ live' = [live EXCEPT ![w] = TRUE]
    /\ LET p == NewObj(Heap)
           h1 == [Heap EXCEPT !.kd[p] = "heap", !.vl[p] = x]
       IN  /\ m_p' = [m_p EXCEPT ![w] = p]
           /\ Commit([h1 EXCEPT !.rc[p] = 1])
    /\ last' = Call("ctor_raw", w, NULL)

\* (mutant) the copy constructor without m_p->m_referenceCount++
CtorCopy_NoIncrement(w, rhs) ==
    /\ ~live[w]
    /\ live[rhs]
    /\ live' = [live EXCEPT ![w] = TRUE]
    /\ m_p' = [m_p EXCEPT ![w] = m_p[rhs]]
    /\ Commit(Heap)
    /\ last' = Call("ctor_copy", w, NULL)

\* counted_ptr(const counted_ptr& rhs)
CtorCopy(w, rhs) ==
    /\ ~live[w]
    /\ live[rhs]
    /\ live' = [live EXCEPT ![w] = TRUE]
    /\ m_p' = [m_p EXCEPT ![w] = m_p[rhs]]
    /\ Commit(IF m_p[rhs] # NULL
              THEN [Heap EXCEPT !.rc[m_p[rhs]] = @ + 1]
              ELSE Heap)
    /\ last' = Call("ctor_copy", w, NULL)

\* ~counted_ptr(); afterwards the instance, and with it its m_p, is gone
Dtor(w, g) ==
    /\ live[w]
    /\ g \in Scribble(m_p[w])
    /\ live' = [live EXCEPT ![w] = FALSE]
    /\ m_p' = [m_p EXCEPT ![w] = NULL]
    /\ Commit(ReleaseHeld(Heap, m_p[w], g))
    /\ last' = Call("dtor", w, NULL)

\* (mutant) attach(r) without m_p->m_referenceCount++ in the sharing branch
AttachBody_NoIncrement(w, h, p, r, g, v) ==
    LET h1 == ReleaseHeld(h, p, g)
    IN  IF h1.rc[r] = 0
        THEN /\ HasFresh(h1)
             /\ LET c == NewObj(h1)
                    h2 == CloneObj(h1, r, c, v)
                IN  /\ m_p' = [m_p EXCEPT ![w] = c]
                    /\ Commit([h2 EXCEPT !.rc[c] = 1])
        ELSE /\ m_p' = [m_p EXCEPT ![w] = r]
             /\ Commit(h1)

\* the body of attach(r), run on wrapper w whose m_p is p, from heap h
AttachBody(w, h, p, r, g, v) ==
    LET h1 == ReleaseHeld(h, p, g)
    IN  IF h1.rc[r] = 0
        THEN /\ HasFresh(h1)
             /\ LET c == NewObj(h1)
                    h2 == CloneObj(h1, r, c, v)
                IN  /\ m_p' = [m_p EXCEPT ![w] = c]
                    /\ Commit([h2 EXCEPT !.rc[c] = 1])
        ELSE /\ m_p' = [m_p EXCEPT ![w] = r]
             /\ Commit([h1 EXCEPT !.rc[r] = @ + 1])

\* the objects a caller can pass by reference: its own objects, and the
\* object behind any constructed wrapper (*u)
Referable ==
    {o \in Obj : kind[o] = "caller" \/ \E u \in Wrapper : live[u] /\ m_p[u] = o}

\* attach(const T &r)
Attach(w, r, g, v) ==
    /\ live[w]
    /\ r \in Referable
    /\ g \in Scribble(m_p[w])
    /\ UNCHANGED live
    /\ AttachBody(w, Heap, m_p[w], r, g, v)
    /\ last' = Call("attach", w, NULL)

\* attach(r) with r an object the caller has just made (its count is 0)
AttachNew(w, x, g) ==
    /\ live[w]
    /\ HasFresh(Heap)
    /\ g \in Scribble(m_p[w])
    /\ UNCHANGED live
    /\ LET r == NewObj(Heap)
       IN  AttachBody(w, [Heap EXCEPT !.kd[r] = "caller", !.vl[r] = x, !.rc[r] = 0],
                      m_p[w], r, g, x)
    /\ last' = Call("attach_new", w, NULL)

\* counted_ptr(const T &r) : m_p(0) {attach(r);}
CtorValue(w, r, v) ==
    /\ ~live[w]
    /\ r \in Referable
    /\ live' = [live EXCEPT ![w] = TRUE]
    /\ AttachBody(w, Heap, NULL, r, 0, v)
    /\ last' = Call("ctor_value", w, NULL)

\* whether the non-const get() on w takes the cloning branch
GetClones(w) == m_p[w] # NULL /\ m_referenceCount[m_p[w]] > 1

\* (mutant) get() without m_p->m_referenceCount-- on the original
GetResult_NoDecrement(w, v) ==
    LET p == m_p[w]
    IN  IF p # NULL /\ m_referenceCount[p] > 1
        THEN LET temp == NewObj(Heap)
                 h1 == CloneObj(Heap, p, temp, v)
             IN  [h |-> [h1 EXCEPT !.rc[temp] = 1], p |-> temp]
        ELSE [h |-> Heap, p |-> p]

\* the non-const get() on w: the resulting heap (h) and the pointer returned (p)
GetResult(w, v) ==
    LET p == m_p[w]
    IN  IF p # NULL /\ m_referenceCount[p] > 1
        THEN LET temp == NewObj(Heap)
                 h1 == CloneObj(Heap, p, temp, v)
                 h2 == [h1 EXCEPT !.rc[p] = @ - 1]
             IN  [h |-> [h2 EXCEPT !.rc[temp] = 1], p |-> temp]
        ELSE [h |-> Heap, p |-> p]

\* T* get()
Get(w, v) ==
    /\ live[w]
    /\ GetClones(w) => HasFresh(Heap)
    /\ v \in Payload(m_p[w])
    /\ UNCHANGED live
    /\ m_p' = [m_p EXCEPT ![w] = GetResult(w, v).p]
    /\ Commit(GetResult(w, v).h)
    /\ last' = Call("get", w, GetResult(w, v).p)

\* counted_ptr& operator=(const counted_ptr& rhs)
Assign(w, rhs, g) ==
    /\ live[w]
    /\ live[rhs]
    /\ g \in Scribble(m_p[w])
    /\ UNCHANGED live
    /\ last' = Call("assign", w, NULL)
    /\ IF w = rhs
       THEN /\ UNCHANGED m_p
            /\ Commit(Heap)
       ELSE IF m_p[w] # m_p[rhs]
            THEN LET h1 == ReleaseHeld(Heap, m_p[w], g)
                     q == m_p[rhs]
                 IN  /\ m_p' = [m_p EXCEPT ![w] = q]
                     /\ Commit(IF q # NULL THEN [h1 EXCEPT !.rc[q] = @ + 1] ELSE h1)
            ELSE /\ UNCHANGED m_p
                 /\ Commit(Heap)

\* get()->field = x : a write through the pointer the non-const get() returns
WriteGet(w, x, v) ==
    /\ live[w]
    /\ m_p[w] # NULL
    /\ GetClones(w) => HasFresh(Heap)
    /\ v \in Payload(m_p[w])
    /\ UNCHANGED live
    /\ m_p' = [m_p EXCEPT ![w] = GetResult(w, v).p]
    /\ Commit([GetResult(w, v).h EXCEPT !.vl[GetResult(w, v).p] = x])
    /\ last' = Call("write_get", w, NULL)

\* T* operator->() { return get(); }  used as  w->field = x
WriteArrow(w, x, v) ==
    /\ live[w]
    /\ m_p[w] # NULL
    /\ GetClones(w) => HasFresh(Heap)
    /\ v \in Payload(m_p[w])
    /\ UNCHANGED live
    /\ m_p' = [m_p EXCEPT ![w] = GetResult(w, v).p]
    /\ Commit([GetResult(w, v).h EXCEPT !.vl[GetResult(w, v).p] = x])
    /\ last' = Call("write_arrow", w, NULL)

\* T& operator*() { return *m_p; }  used as  (*w).field = x
WriteDeref(w, x) ==
    /\ live[w]
    /\ m_p[w] # NULL
    /\ UNCHANGED <<live, m_p>>
    /\ Commit([Heap EXCEPT !.vl[m_p[w]] = x])
    /\ last' = Call("write_deref", w, NULL)

\* the counted_ptr operations, on payloads drawn from V
CountedStep(V) ==
    \/ \E w \in Wrapper : CtorNull(w)
    \/ \E w \in Wrapper, x \in V : CtorRaw(w, x)
    \/ \E w, rhs \in Wrapper : CtorCopy(w, rhs)
    \/ \E w \in Wrapper, r \in Obj, v \in V : CtorValue(w, r, v)
    \/ \E w \in Wrapper, g \in Garbage : Dtor(w, g)
    \/ \E w \in Wrapper, r \in Obj, g \in Garbage, v \in V : Attach(w, r, g, v)
    \/ \E w \in Wrapper, x \in V, g \in Garbage : AttachNew(w, x, g)
    \/ \E w \in Wrapper, v \in V : Get(w, v)
    \/ \E w, rhs \in Wrapper, g \in Garbage : Assign(w, rhs, g)

\* single-threaded use of counted_ptr; the payload plays no part
Next == CountedStep({0})

Spec == Init /\ [][Next]_vars

\* the same, with writes through the mutable accessors
NextCow ==
    \/ CountedStep(Val)
    \/ \E w \in Wrapper, x, v \in Val : WriteGet(w, x, v)
    \/ \E w \in Wrapper, x, v \in Val : WriteArrow(w, x, v)
    \/ \E w \in Wrapper, x \in Val : WriteDeref(w, x)

SpecCow == Init /\ [][NextCow]_vars

\* ------------------------------------------------------------- member_ptr

\* the frame of a member_ptr call: it touches no counted_ptr and no simple_ptr
MemberFrame ==
    /\ UNCHANGED <<m_p, live, sp_p, sp_st>>
    /\ UNCHANGED <<valueVars, vectorVars, threadVars>>

\* the raw pointers calling code can pass to wrapper w: NULL, a pointer it
\* holds itself (one that release() returned), or the one w.get() returns
CallerHeld == {o \in Obj : kind[o] = "caller"}
RawArgs(w) == {NULL} \cup CallerHeld \cup {mem_p[w]}

\* an adopted object is the wrapper's from here on
Adopt(h, p) == IF p = NULL THEN h ELSE [h EXCEPT !.kd[p] = "heap"]

\* explicit member_ptr(T *p = NULL) : m_p(p) {}
MemCtor(w, p) ==
    /\ mem_st[w] # "live"
    /\ p \in {NULL} \cup CallerHeld
    /\ mem_st' = [mem_st EXCEPT ![w] = "live"]
    /\ mem_p' = [mem_p EXCEPT ![w] = p]
    /\ Store(Adopt(Heap, p))
    /\ MemberFrame
    /\ last' = Call("mem_ctor", w, NULL)

\* member_ptr(new T)
MemCtorNew(w) ==
    /\ mem_st[w] # "live"
    /\ HasFresh(Heap)
    /\ mem_st' = [mem_st EXCEPT ![w] = "live"]
    /\ mem_p' = [mem_p EXCEPT ![w] = NewObj(Heap)]
    /\ Store(Adopt(Heap, NewObj(Heap)))
    /\ MemberFrame
    /\ last' = Call("mem_ctor", w, NULL)

\* T* get() { return m_p; }
MemGet(w) ==
    /\ mem_st[w] = "live"
    /\ UNCHANGED <<mem_p, mem_st>>
    /\ Store(Heap)
    /\ MemberFrame
    /\ last' = Call("mem_get", w, mem_p[w])

\* (mutant) release() without the store of 0 into m_p
MemRelease_NoNull(w) ==
    /\ mem_st[w] = "live"
    /\ UNCHANGED <<mem_p, mem_st>>
    /\ Store(IF mem_p[w] = NULL THEN Heap ELSE [Heap EXCEPT !.kd[mem_p[w]] = "caller"])
    /\ MemberFrame
    /\ last' = Call("mem_release", w, mem_p[w])

\* T* release(): old_p = m_p; m_p = 0; return old_p;
MemRelease(w) ==
    /\ mem_st[w] = "live"
    /\ mem_p' = [mem_p EXCEPT ![w] = NULL]
    /\ UNCHANGED mem_st
    /\ Store(IF mem_p[w] = NULL THEN Heap ELSE [Heap EXCEPT !.kd[mem_p[w]] = "caller"])
    /\ MemberFrame
    /\ last' = Call("mem_release", w, mem_p[w])

\* void reset(T *p) {delete m_p; m_p = p;}
MemReset(w, p) ==
    /\ mem_st[w] = "live"
    /\ p \in RawArgs(w)
    /\ mem_p' = [mem_p EXCEPT ![w] = p]
    /\ UNCHANGED mem_st
    /\ Store(Adopt(DeletePtr(Heap, mem_p[w]), p))
    /\ MemberFrame
    /\ last' = Call("mem_reset", w, NULL)

\* reset(new T)
MemResetNew(w) ==
    /\ mem_st[w] = "live"
    /\ HasFresh(Heap)
    /\ mem_p' = [mem_p EXCEPT ![w] = NewObj(Heap)]
    /\ UNCHANGED mem_st
    /\ Store(Adopt(DeletePtr(Heap, mem_p[w]), NewObj(Heap)))
    /\ MemberFrame
    /\ last' = Call("mem_reset", w, NULL)

\* (mutant) ~member_ptr() that stores 0 into m_p, as ~simple_ptr() does
MemDtorBody_Nulls(w) ==
    /\ mem_p' = [mem_p EXCEPT ![w] = NULL]
    /\ Store(DeletePtr(Heap, mem_p[w]))

\* the body of ~member_ptr(): {delete m_p;}
MemDtorBody(w) ==
    /\ UNCHANGED mem_p
    /\ Store(DeletePtr(Heap, mem_p[w]))

\* ~member_ptr()
MemDtor(w) ==
    /\ mem_st[w] = "live"
    /\ mem_st' = [mem_st EXCEPT ![w] = "dead"]
    /\ MemDtorBody(w)
    /\ MemberFrame
    /\ last' = Call("mem_dtor", w, NULL)

\* ~member_ptr() run once more on an instance already destroyed
MemDtorAgain(w) ==
    /\ mem_st[w] = "dead"
    /\ UNCHANGED mem_st
    /\ MemDtorBody(w)
    /\ MemberFrame
    /\ last' = Call("mem_dtor_again", w, NULL)

\* the member_ptr calls of a program that destroys each instance once
NextMember ==
    \/ \E w \in Wrapper, p \in Obj \cup {NULL} : MemCtor(w, p)
    \/ \E w \in Wrapper : MemCtorNew(w)
    \/ \E w \in Wrapper : MemGet(w)
    \/ \E w \in Wrapper : MemRelease(w)
    \/ \E w \in Wrapper, p \in Obj \cup {NULL} : MemReset(w, p)
    \/ \E w \in Wrapper : MemResetNew(w)
    \/ \E w \in Wrapper : MemDtor(w)

SpecMember == Init /\ [][NextMember]_vars

\* the same, where a destructor can run a second time (double teardown)
NextMemberTeardown ==
    \/ NextMember
    \/ \E w \in Wrapper : MemDtorAgain(w)

SpecMemberTeardown == Init /\ [][NextMemberTeardown]_vars

\* ------------------------------------------------------------- simple_ptr

SimpleFrame ==
    /\ UNCHANGED <<m_p, live, mem_p, mem_st>>
    /\ UNCHANGED <<valueVars, vectorVars, threadVars>>

\* simple_ptr(T *p = NULL) : m_p(p) {}  with p = NULL
SimpleCtorNull(w) ==
    /\ sp_st[w] # "live"
    /\ sp_st' = [sp_st EXCEPT ![w] = "live"]
    /\ sp_p' = [sp_p EXCEPT ![w] = NULL]
    /\ Store(Heap)
    /\ SimpleFrame
    /\ last' = Call("simple_ctor", w, NULL)

\* simple_ptr(new T)
SimpleCtorNew(w) ==
    /\ sp_st[w] # "live"
    /\ HasFresh(Heap)
    /\ sp_st' = [sp_st EXCEPT ![w] = "live"]
    /\ sp_p' = [sp_p EXCEPT ![w] = NewObj(Heap)]
    /\ Store(Adopt(Heap, NewObj(Heap)))
    /\ SimpleFrame
    /\ last' = Call("simple_ctor", w, NULL)

\* (mutant) ~simple_ptr() without the store of 0 into m_p
SimpleDtorBody_NoNull(w) ==
    /\ UNCHANGED sp_p
    /\ Store(DeletePtr(Heap, sp_p[w]))

\* the body of ~simple_ptr(): delete m_p; *((volatile T**)(&m_p)) = 0;
SimpleDtorBody(w) ==
    /\ sp_p' = [sp_p EXCEPT ![w] = NULL]
    /\ Store(DeletePtr(Heap, sp_p[w]))

\* ~simple_ptr()
SimpleDtor(w) ==
    /\ sp_st[w] = "live"
    /\ sp_st' = [sp_st EXCEPT ![w] = "dead"]
    /\ SimpleDtorBody(w)
    /\ SimpleFrame
    /\ last' = Call("simple_dtor", w, NULL)

\* ~simple_ptr() run once more on an instance already destroyed
SimpleDtorAgain(w) ==
    /\ sp_st[w] = "dead"
    /\ UNCHANGED sp_st
    /\ SimpleDtorBody(w)
    /\ SimpleFrame
    /\ last' = Call("simple_dtor_again", w, NULL)

NextSimple ==
    \/ \E w \in Wrapper : SimpleCtorNull(w)
    \/ \E w \in Wrapper : SimpleCtorNew(w)
    \/ \E w \in Wrapper : SimpleDtor(w)
    \/ \E w \in Wrapper : SimpleDtorAgain(w)

SpecSimple == Init /\ [][NextSimple]_vars

\* ------------------------------------------------ value_ptr, clonable_ptr
\* value_ptr<T> is a member_ptr<T>: its pointer is mem_p, its state mem_st.
\* clonable_ptr<T> has the same members, with rhs.m_p->Clone() wherever
\* value_ptr has new T(*rhs.m_p).

\* the frame of a value_ptr call
ValueFrame ==
    /\ UNCHANGED <<m_p, live, sp_p, sp_st>>
    /\ UNCHANGED <<vectorVars, threadVars>>

\* rhs.m_p ? new T(*rhs.m_p) : NULL   -- the pointer a deep copy of p yields
DeepCopyPtr(p) == IF p = NULL THEN NULL ELSE NewObj(Heap)
\* the heap after that deep copy
DeepCopyHeap(p) ==
    IF p = NULL THEN Heap ELSE CloneObj(Heap, p, NewObj(Heap), val[p])

\* value_ptr(const T &obj) : member_ptr<T>(new T(obj)) {}
ValCtorValue(w, x) ==
    /\ asg.pc = "idle"
    /\ mem_st[w] # "live"
    /\ HasFresh(Heap)
    /\ mem_st' = [mem_st EXCEPT ![w] = "live"]
    /\ mem_p' = [mem_p EXCEPT ![w] = NewObj(Heap)]
    /\ Store([Heap EXCEPT !.kd[NewObj(Heap)] = "heap", !.vl[NewObj(Heap)] = x])
    /\ UNCHANGED asg
    /\ ValueFrame
    /\ last' = Call("val_ctor_value", w, NULL)

\* value_ptr(T *p = NULL) : member_ptr<T>(p) {}  with p = NULL
ValCtorNull(w) ==
    /\ asg.pc = "idle"
    /\ mem_st[w] # "live"
    /\ mem_st' = [mem_st EXCEPT ![w] = "live"]
    /\ mem_p' = [mem_p EXCEPT ![w] = NULL]
    /\ Store(Heap)
    /\ UNCHANGED asg
    /\ ValueFrame
    /\ last' = Call("val_ctor_null", w, NULL)

\* (mutant) a copy constructor that copies the pointer, not the object
ValCtorCopy_Shallow(w, rhs) ==
    /\ asg.pc = "idle"
    /\ mem_st[w] # "live"
    /\ mem_st[rhs] = "live"
    /\ mem_st' = [mem_st EXCEPT ![w] = "live"]
    /\ mem_p' = [mem_p EXCEPT ![w] = mem_p[rhs]]
    /\ Store(Heap)
    /\ UNCHANGED asg
    /\ ValueFrame
    /\ last' = Call("val_ctor_copy", w, NULL)

\* value_ptr(const value_ptr<T>& rhs)
\*     : member_ptr<T>(rhs.m_p ? new T(*rhs.m_p) : NULL) {}
ValCtorCopy(w, rhs) ==
    /\ asg.pc = "idle"
    /\ mem_st[w] # "live"
    /\ mem_st[rhs] = "live"
    /\ mem_p[rhs] # NULL => HasFresh(Heap)
    /\ mem_st' = [mem_st EXCEPT ![w] = "live"]
    /\ mem_p' = [mem_p EXCEPT ![w] = DeepCopyPtr(mem_p[rhs])]
    /\ Store(DeepCopyHeap(mem_p[rhs]))
    /\ UNCHANGED asg
    /\ ValueFrame
    /\ last' = Call("val_ctor_copy", w, NULL)

\* operator=(rhs) with this == &rhs: the body is skipped
ValAssignSelf(w) ==
    /\ asg.pc = "idle"
    /\ mem_st[w] = "live"
    /\ UNCHANGED <<mem_p, mem_st, asg>>
    /\ Store(Heap)
    /\ ValueFrame
    /\ last' = Call("val_assign_self", w, NULL)

\* operator=(rhs), this != &rhs:  T *old_p = this->m_p;  and the evaluation of
\* rhs.m_p ? new T(*rhs.m_p) : NULL
ValAssignCopy(w, rhs) ==
    /\ asg.pc = "idle"
    /\ w # rhs
    /\ mem_st[w] = "live"
    /\ mem_st[rhs] = "live"
    /\ mem_p[rhs] # NULL => HasFresh(Heap)
    /\ asg' = [pc |-> "copied", w |-> w, rhs |-> rhs, old_p |-> mem_p[w],
               temp |-> DeepCopyPtr(mem_p[rhs])]
    /\ UNCHANGED <<mem_p, mem_st>>
    /\ Store(DeepCopyHeap(mem_p[rhs]))
    /\ ValueFrame
    /\ last' = Call("val_assign_copy", w, NULL)

\* the same call when new T(*rhs.m_p) throws: control leaves operator= from
\* the middle of line 110, before the store into m_p
ValAssignFail(w, rhs) ==
    /\ asg.pc = "idle"
    /\ w # rhs
    /\ mem_st[w] = "live"
    /\ mem_st[rhs] = "live"
    /\ mem_p[rhs] # NULL
    /\ UNCHANGED <<mem_p, mem_st, asg>>
    /\ Store(Heap)
    /\ ValueFrame
    /\ last' = Call("val_assign_fail", w, NULL)

\* this->m_p = (the copy);
ValAssignAdopt ==
    /\ asg.pc = "copied"
    /\ mem_p' = [mem_p EXCEPT ![asg.w] = asg.temp]
    /\ asg' = [asg EXCEPT !.pc = "adopted"]
    /\ UNCHANGED mem_st
    /\ Store(Heap)
    /\ ValueFrame
    /\ last' = Call("val_assign_adopt", asg.w, NULL)

\* (mutant) operator= that deletes the object the wrapper holds now, the copy
ValAssignDelete_Copy ==
    /\ asg.pc = "adopted"
    /\ asg' = AsgIdle
    /\ UNCHANGED <<mem_p, mem_st>>
    /\ Store(DeletePtr(Heap, mem_p[asg.w]))
    /\ ValueFrame
    /\ last' = Call("val_assign", asg.w, NULL)

\* delete old_p;  return *this;
ValAssignDelete ==
    /\ asg.pc = "adopted"
    /\ asg' = AsgIdle
    /\ UNCHANGED <<mem_p, mem_st>>
    /\ Store(DeletePtr(Heap, asg.old_p))
    /\ ValueFrame
    /\ last' = Call("val_assign", asg.w, NULL)

\* T& operator*() { return *m_p; }  used as  (*w).field = x
ValWrite(w, x) ==
    /\ asg.pc = "idle"
    /\ mem_st[w] = "live"
    /\ mem_p[w] # NULL
    /\ UNCHANGED <<mem_p, mem_st, asg>>
    /\ Store([Heap EXCEPT !.vl[mem_p[w]] = x])
    /\ ValueFrame
    /\ last' = Call("val_write", w, NULL)

\* ~value_ptr() is ~member_ptr()
ValDtor(w) ==
    /\ asg.pc = "idle"
    /\ MemDtor(w)

NextValue ==
    \/ \E w \in Wrapper, x \in Val : ValCtorValue(w, x)
    \/ \E w \in Wrapper : ValCtorNull(w)
    \/ \E w, rhs \in Wrapper : ValCtorCopy(w, rhs)
    \/ \E w \in Wrapper : ValAssignSelf(w)
    \/ \E w, rhs \in Wrapper : ValAssignCopy(w, rhs)
    \/ \E w, rhs \in Wrapper : ValAssignFail(w, rhs)
    \/ ValAssignAdopt
    \/ ValAssignDelete
    \/ \E w \in Wrapper, x \in Val : ValWrite(w, x)
    \/ \E w \in Wrapper : ValDtor(w)

SpecValue == Init /\ [][NextValue]_vars

\* ----------------------------------------------------- vector_member_ptrs
\* One vector_member_ptrs instance.  Each slot of its array is a member_ptr;
\* m_ptr[i] and newPtr[i] stand for the m_p of slot i of the two arrays.

VectorFrame ==
    /\ UNCHANGED <<m_p, live, mem_p, mem_st, sp_p, sp_st>>
    /\ UNCHANGED <<valueVars, threadVars>>

\* new member_ptr<T>[n]: every slot is built by member_ptr(T *p = NULL)
EmptySlots == [s \in Slot |-> NULL]

\* delete [] arr, for an array of n slots: ~member_ptr() on every slot
RECURSIVE DeleteSlots(_, _, _)
DeleteSlots(h, arr, n) ==
    IF n = 0 THEN h ELSE DeleteSlots(DeletePtr(h, arr[n - 1]), arr, n - 1)

\* vector_member_ptrs(size_t size = 0)
VecCtor(n) ==
    /\ v_st # "live"
    /\ v_st' = "live"
    /\ m_size' = n
    /\ m_ptr' = EmptySlots
    /\ UNCHANGED <<newPtr, rz>>
    /\ Store(Heap)
    /\ VectorFrame
    /\ last' = Call("vec_ctor", n, NULL)

\* ~vector_member_ptrs() {delete [] this->m_ptr;}  The instance is gone then.
VecDtor ==
    /\ v_st = "live"
    /\ rz.pc = "idle"
    /\ v_st' = "dead"
    /\ m_size' = 0
    /\ m_ptr' = EmptySlots
    /\ UNCHANGED <<newPtr, rz>>
    /\ Store(DeleteSlots(Heap, m_ptr, m_size))
    /\ VectorFrame
    /\ last' = Call("vec_dtor", 0, NULL)

\* the raw pointers calling code can pass to slot i: NULL, a pointer it holds
\* itself, or the one v[i].get() returns
SlotArgs(i) == {NULL} \cup CallerHeld \cup {m_ptr[i]}

\* v[i].reset(p)
SlotReset(i, p) ==
    /\ v_st = "live"
    /\ rz.pc = "idle"
    /\ i < m_size
    /\ p \in SlotArgs(i)
    /\ m_ptr' = [m_ptr EXCEPT ![i] = p]
    /\ UNCHANGED <<v_st, m_size, newPtr, rz>>
    /\ Store(Adopt(DeletePtr(Heap, m_ptr[i]), p))
    /\ VectorFrame
    /\ last' = Call("slot_reset", i, NULL)

\* v[i].reset(new T)
SlotResetNew(i) ==
    /\ v_st = "live"
    /\ rz.pc = "idle"
    /\ i < m_size
    /\ HasFresh(Heap)
    /\ m_ptr' = [m_ptr EXCEPT ![i] = NewObj(Heap)]
    /\ UNCHANGED <<v_st, m_size, newPtr, rz>>
    /\ Store(Adopt(DeletePtr(Heap, m_ptr[i]), NewObj(Heap)))
    /\ VectorFrame
    /\ last' = Call("slot_reset", i, NULL)

\* v[i].release()
SlotRelease(i) ==
    /\ v_st = "live"
    /\ rz.pc = "idle"
    /\ i < m_size
    /\ m_ptr' = [m_ptr EXCEPT ![i] = NULL]
    /\ UNCHANGED <<v_st, m_size, newPtr, rz>>
    /\ Store(IF m_ptr[i] = NULL THEN Heap ELSE [Heap EXCEPT !.kd[m_ptr[i]] = "caller"])
    /\ VectorFrame
    /\ last' = Call("slot_release", i, m_ptr[i])

\* resize(n): member_ptr<T> *newPtr = new member_ptr<T>[newSize];  i = 0
\* (rz also keeps what the array held when the call began)
ResizeAlloc(n) ==
    /\ v_st = "live"
    /\ rz.pc = "idle"
    /\ newPtr' = EmptySlots
    /\ rz' = [pc |-> "loop", newSize |-> n, i |-> 0, tmp |-> NULL,
              oldSize |-> m_size, old |-> m_ptr, nf |-> nfree]
    /\ UNCHANGED <<v_st, m_size, m_ptr>>
    /\ Store(Heap)
    /\ VectorFrame
    /\ last' = Call("resize_alloc", n, NULL)

\* resize(n) when new member_ptr<T>[newSize] throws
ResizeFail(n) ==
    /\ v_st = "live"
    /\ rz.pc = "idle"
    /\ UNCHANGED <<v_st, m_size, m_ptr, newPtr, rz>>
    /\ Store(Heap)
    /\ VectorFrame
    /\ last' = Call("resize_fail", n, NULL)

\* whether the loop of resize() runs once more
ResizeLoops == rz.i < m_size /\ rz.i < rz.newSize

\* (mutant) the loop body reading the old slot with get(), not release()
ResizeRelease_Get ==
    /\ rz.pc = "loop"
    /\ ResizeLoops
    /\ rz' = [rz EXCEPT !.pc = "released", !.tmp = m_ptr[rz.i]]
    /\ UNCHANGED <<v_st, m_size, m_ptr, newPtr>>
    /\ Store(Heap)
    /\ VectorFrame
    /\ last' = Call("resize_release", rz.i, m_ptr[rz.i])

\* the argument of line 251: this->m_ptr[i].release()
ResizeRelease ==
    /\ rz.pc = "loop"
    /\ ResizeLoops
    /\ m_ptr' = [m_ptr EXCEPT ![rz.i] = NULL]
    /\ rz' = [rz EXCEPT !.pc = "released", !.tmp = m_ptr[rz.i]]
    /\ UNCHANGED <<v_st, m_size, newPtr>>
    /\ Store(Heap)
    /\ VectorFrame
    /\ last' = Call("resize_release", rz.i, m_ptr[rz.i])

\* (mutant) the loop body dropping the pointer it took from the old slot
ResizeReset_Drop ==
    /\ rz.pc = "released"
    /\ newPtr' = [newPtr EXCEPT ![rz.i] = NULL]
    /\ rz' = [rz EXCEPT !.pc = "loop", !.tmp = NULL, !.i = @ + 1]
    /\ UNCHANGED <<v_st, m_size, m_ptr>>
    /\ Store(DeletePtr(Heap, newPtr[rz.i]))
    /\ VectorFrame
    /\ last' = Call("resize_reset", rz.i, NULL)

\* line 251: newPtr[i].reset(...);  i++
ResizeReset ==
    /\ rz.pc = "released"
    /\ newPtr' = [newPtr EXCEPT ![rz.i] = rz.tmp]
    /\ rz' = [rz EXCEPT !.pc = "loop", !.tmp = NULL, !.i = @ + 1]
    /\ UNCHANGED <<v_st, m_size, m_ptr>>
    /\ Store(DeletePtr(Heap, newPtr[rz.i]))
    /\ VectorFrame
    /\ last' = Call("resize_reset", rz.i, NULL)

\* lines 252-254: delete [] this->m_ptr; m_size = newSize; m_ptr = newPtr;
ResizeFinish ==
    /\ rz.pc = "loop"
    /\ ~ResizeLoops
    /\ m_size' = rz.newSize
    /\ m_ptr' = newPtr
    /\ newPtr' = EmptySlots
    /\ rz' = RzIdle
    /\ UNCHANGED v_st
    /\ Store(DeleteSlots(Heap, m_ptr, m_size))
    /\ VectorFrame
    /\ last' = Call("resize", rz.newSize, NULL)

NextVector ==
    \/ \E n \in 0..MaxSize : VecCtor(n)
    \/ VecDtor
    \/ \E i \in Slot, p \in Obj \cup {NULL} : SlotReset(i, p)
    \/ \E i \in Slot : SlotResetNew(i)
    \/ \E i \in Slot : SlotRelease(i)
    \/ \E n \in 0..MaxSize : ResizeAlloc(n)
    \/ \E n \in 0..MaxSize : ResizeFail(n)
    \/ ResizeRelease
    \/ ResizeReset
    \/ ResizeFinish

SpecVector == Init /\ [][NextVector]_vars

\* ---------------------------------------- counted_ptr called from two threads
\* m_p->m_referenceCount++ and --m_p->m_referenceCount are a load of the count
\* into a register (reg) followed by a store of reg + 1 or reg - 1; another
\* thread can run between the two.  A wrapper is used by one thread at a
\* time; the object behind it is shared.

ThreadFrame ==
    /\ UNCHANGED <<mem_p, mem_st, sp_p, sp_st>>
    /\ UNCHANGED <<valueVars, vectorVars>>

\* wrapper w is being written, or read, by a call in progress
Busy(w) == \E u \in Thread : thr[u].pc # "idle" /\ thr[u].w = w
Reading(w) == \E u \in Thread : thr[u].pc # "idle" /\ thr[u].rhs = w

\* thread t enters a call
Enter(t) ==
    /\ thr[t].pc = "idle"
    /\ overlap' = (overlap \/ \E u \in Thread \ {t} : thr[u].pc # "idle")

\* counted_ptr(T *p) with p = new T, on thread t
ThrCtorRaw(t, w) ==
    /\ Enter(t)
    /\ ~live[w] /\ ~Busy(w) /\ ~Reading(w)
    /\ HasFresh(Heap)
    /\ live' = [live EXCEPT ![w] = TRUE]
    /\ m_p' = [m_p EXCEPT ![w] = NewObj(Heap)]
    /\ Store([Heap EXCEPT !.kd[NewObj(Heap)] = "heap", !.rc[NewObj(Heap)] = 1])
    /\ UNCHANGED thr
    /\ ThreadFrame
    /\ last' = Call("thr_ctor_raw", w, NULL)

\* counted_ptr(const counted_ptr& rhs): m_p(rhs.m_p), and the load of
\* m_p->m_referenceCount++
ThrCopyBegin(t, w, rhs) ==
    /\ Enter(t)
    /\ ~live[w] /\ ~Busy(w) /\ ~Reading(w)
    /\ live[rhs] /\ ~Busy(rhs)
    /\ live' = [live EXCEPT ![w] = TRUE]
    /\ m_p' = [m_p EXCEPT ![w] = m_p[rhs]]
    /\ thr' = [thr EXCEPT ![t] =
                  IF m_p[rhs] = NULL THEN ThrIdle
                  ELSE [pc |-> "inc", op |-> "copy", w |-> w, rhs |-> rhs,
                        p |-> m_p[rhs], reg |-> m_referenceCount[m_p[rhs]]]]
    /\ Store(Heap)
    /\ ThreadFrame
    /\ last' = Call("thr_copy", w, NULL)

\* ~counted_ptr(): the test of m_p and the load of --m_p->m_referenceCount
ThrDtorBegin(t, w) ==
    /\ Enter(t)
    /\ live[w] /\ ~Busy(w) /\ ~Reading(w)
    /\ IF m_p[w] = NULL
       THEN /\ live' = [live EXCEPT ![w] = FALSE]
            /\ UNCHANGED <<m_p, thr>>
       ELSE /\ thr' = [thr EXCEPT ![t] =
                          [pc |-> "dec", op |-> "dtor", w |-> w, rhs |-> 0,
                           p |-> m_p[w], reg |-> m_referenceCount[m_p[w]]]]
            /\ UNCHANGED <<m_p, live>>
    /\ Store(Heap)
    /\ ThreadFrame
    /\ last' = Call("thr_dtor", w, NULL)

\* operator=(rhs): lines 218-222, up to the load of --m_p->m_referenceCount,
\* or up to line 224 when m_p is NULL
ThrAssignBegin(t, w, rhs) ==
    /\ Enter(t)
    /\ live[w] /\ ~Busy(w) /\ ~Reading(w)
    /\ live[rhs] /\ (w = rhs \/ ~Busy(rhs))
    /\ thr' = [thr EXCEPT ![t] =
                  IF w = rhs \/ m_p[w] = m_p[rhs] THEN ThrIdle
                  ELSE IF m_p[w] = NULL
                       THEN [pc |-> "share", op |-> "assign", w |-> w, rhs |-> rhs,
                             p |-> NULL, reg |-> 0]
                       ELSE [pc |-> "dec", op |-> "assign", w |-> w, rhs |-> rhs,
                             p |-> m_p[w], reg |-> m_referenceCount[m_p[w]]]]
    /\ UNCHANGED <<m_p, live>>
    /\ Store(Heap)
    /\ ThreadFrame
    /\ last' = Call("thr_assign", w, NULL)

\* the store of --m_p->m_referenceCount, the comparison with 0 and delete m_p
ThrDecStore(t, g) ==
    /\ thr[t].pc = "dec"
    /\ g \in (IF thr[t].reg = 1 THEN Garbage ELSE {0})
    /\ LET p == thr[t].p
           h1 == [Heap EXCEPT !.rc[p] = thr[t].reg - 1]
       IN  Store(IF thr[t].reg - 1 = 0 THEN DeleteObj(h1, p, g) ELSE h1)
    /\ IF thr[t].op = "dtor"
       THEN /\ live' = [live EXCEPT ![thr[t].w] = FALSE]
            /\ m_p' = [m_p EXCEPT ![thr[t].w] = NULL]
            /\ thr' = [thr EXCEPT ![t] = ThrIdle]
       ELSE /\ UNCHANGED <<live, m_p>>
            /\ thr' = [thr EXCEPT ![t].pc = "share"]
    /\ UNCHANGED overlap
    /\ ThreadFrame
    /\ last' = Call("thr_dec", thr[t].w, NULL)

\* operator=, lines 224-226: m_p = rhs.m_p; and the load of
\* m_p->m_referenceCount++
ThrAssignShare(t) ==
    /\ thr[t].pc = "share"
    /\ m_p' = [m_p EXCEPT ![thr[t].w] = m_p[thr[t].rhs]]
    /\ thr' = [thr EXCEPT ![t] =
                  IF m_p[thr[t].rhs] = NULL THEN ThrIdle
                  ELSE [@ EXCEPT !.pc = "inc", !.p = m_p[thr[t].rhs],
                                 !.reg = m_referenceCount[m_p[thr[t].rhs]]]]
    /\ UNCHANGED <<live, overlap>>
    /\ Store(Heap)
    /\ ThreadFrame
    /\ last' = Call("thr_share", thr[t].w, NULL)

\* (mutant) an increment that stores the value it loaded
ThrIncStore_Same(t) ==
    /\ thr[t].pc = "inc"
    /\ Store([Heap EXCEPT !.rc[thr[t].p] = thr[t].reg])
    /\ thr' = [thr EXCEPT ![t] = ThrIdle]
    /\ UNCHANGED <<live, m_p, overlap>>
    /\ ThreadFrame
    /\ last' = Call("thr_inc", thr[t].w, NULL)

\* the store of m_p->m_referenceCount++
ThrIncStore(t) ==
    /\ thr[t].pc = "inc"
    /\ Store([Heap EXCEPT !.rc[thr[t].p] = thr[t].reg + 1])
    /\ thr' = [thr EXCEPT ![t] = ThrIdle]
    /\ UNCHANGED <<live, m_p, overlap>>
    /\ ThreadFrame
    /\ last' = Call("thr_inc", thr[t].w, NULL)

NextThreads ==
    \/ \E t \in Thread, w \in Wrapper : ThrCtorRaw(t, w)
    \/ \E t \in Thread, w, rhs \in Wrapper : ThrCopyBegin(t, w, rhs)
    \/ \E t \in Thread, w \in Wrapper : ThrDtorBegin(t, w)
    \/ \E t \in Thread, w, rhs \in Wrapper : ThrAssignBegin(t, w, rhs)
    \/ \E t \in Thread, g \in Garbage : ThrDecStore(t, g)
    \/ \E t \in Thread : ThrAssignShare(t)
    \/ \E t \in Thread : ThrIncStore(t)

SpecThreads == Init /\ [][NextThreads]_vars

\* ------------------------------------------------------ allocation failure
\* clone() / operator new throws std::bad_alloc: control leaves the member
\* function at that point and the statements after it do not run.

\* get() on a shared object, clone() on line 208 throws
GetFail(w) ==
    /\ live[w]
    /\ GetClones(w)
    /\ UNCHANGED <<live, m_p>>
    /\ Commit(Heap)
    /\ last' = Call("get_fail", w, NULL)

\* attach(r) with r's count 0 on line 192, clone() on line 194 throws: lines
\* 190-191 have run, the store into m_p has not
AttachFail(w, r, g) ==
    /\ live[w]
    /\ r \in Referable
    /\ g \in Scribble(m_p[w])
    /\ ReleaseHeld(Heap, m_p[w], g).rc[r] = 0
    /\ \A o \in Obj : ReleaseHeld(Heap, m_p[w], g).rc[o] >= -MaxFree
    /\ UNCHANGED <<live, m_p>>
    /\ Commit(ReleaseHeld(Heap, m_p[w], g))
    /\ last' = Call("attach_fail", w, NULL)

\* counted_ptr(const T &r) with r's count 0, clone() throws: no instance
CtorValueFail(w, r) ==
    /\ ~live[w]
    /\ r \in Referable
    /\ m_referenceCount[r] = 0
    /\ UNCHANGED <<live, m_p>>
    /\ Commit(Heap)
    /\ last' = Call("ctor_value_fail", w, NULL)

\* single-threaded use of counted_ptr where allocations can fail
NextFail ==
    \/ Next
    \/ \E w \in Wrapper : GetFail(w)
    \/ \E w \in Wrapper, r \in Obj, g \in Garbage : AttachFail(w, r, g)
    \/ \E w \in Wrapper, r \in Obj : CtorValueFail(w, r)

SpecFail == Init /\ [][NextFail]_vars

\* ================================================================ claims

\* the constructed counted_ptr instances whose m_p is o
Holders(o) == {w \in Wrapper : live[w] /\ m_p[w] = o}

\* C1: the m_referenceCount of every object that is not deleted and is held by
\* at least one counted_ptr equals the number of constructed counted_ptr
\* instances whose m_p is its address.
C1_CountEqualsHolders ==
    \A o \in Obj :
        (nfree[o] = 0 /\ Holders(o) # {}) => m_referenceCount[o] = Cardinality(Holders(o))

\* an assignment has just made two wrappers share one live object
C1_Witness ==
    /\ last.op = "assign"
    /\ \E o \in Obj : nfree[o] = 0 /\ Cardinality(Holders(o)) = 2 /\ m_referenceCount[o] = 2

\* C2: an object is deleted at most once, in a step where a wrapper holding it
\* (in the destructor, attach or operator=) takes its count from 1 to 0, and
\* never while another constructed counted_ptr holds its address.
C2_DeletedOnceAtZero ==
    [][\A o \in Obj :
          nfree'[o] # nfree[o] =>
              /\ nfree[o] = 0
              /\ nfree'[o] = 1
              /\ m_referenceCount[o] = 1
              /\ last'.op \in {"dtor", "attach", "attach_new", "assign"}
              /\ live[last'.w] /\ m_p[last'.w] = o
              /\ \A u \in Wrapper \ {last'.w} : ~(live[u] /\ m_p[u] = o)]_vars

\* C4: the non-const get() on a shared object (count > 1) clones it, lowers
\* the original's count by exactly one without deleting it, leaves the wrapper
\* holding the clone with count 1 and every other wrapper where it was; on a
\* count of 1 or less, or NULL, nothing changes and no clone is made.
C4_GetClonesWhenShared ==
    [][\A w \in Wrapper, v \in Val :
          Get(w, v) =>
              LET p == m_p[w]
              IN  IF p # NULL /\ m_referenceCount[p] > 1
                  THEN /\ m_p'[w] # p
                       /\ kind[m_p'[w]] = "none"
                       /\ kind'[m_p'[w]] = "heap"
                       /\ m_referenceCount'[m_p'[w]] = 1
                       /\ nfree[p] = 0 => val'[m_p'[w]] = val[p]
                       /\ m_referenceCount'[p] = m_referenceCount[p] - 1
                       /\ nfree' = nfree
                       /\ \A u \in Wrapper \ {w} : m_p'[u] = m_p[u]
                       /\ \A o \in Obj \ {p, m_p'[w]} :
                              m_referenceCount'[o] = m_referenceCount[o] /\ kind'[o] = kind[o]
                       /\ last'.ret = m_p'[w]
                  ELSE /\ m_p' = m_p
                       /\ m_referenceCount' = m_referenceCount
                       /\ kind' = kind
                       /\ nfree' = nfree
                       /\ last'.ret = p]_vars

\* a built from a raw pointer, b copied from a, then a.get(): both hold
\* distinct live objects of count 1
C4_Witness ==
    /\ last.op = "get"
    /\ \E a, b \in Wrapper :
          /\ a = last.w /\ b # a /\ live[a] /\ live[b]
          /\ m_p[a] # NULL /\ m_p[b] # NULL /\ m_p[a] # m_p[b]
          /\ last.ret = m_p[a]
          /\ nfree[m_p[a]] = 0 /\ nfree[m_p[b]] = 0
          /\ m_referenceCount[m_p[a]] = 1 /\ m_referenceCount[m_p[b]] = 1

\* the count of r that line 192 of attach reads, after the release of p
CountAfterRelease(p, r, g) ==
    IF p = r
    THEN IF m_referenceCount[p] = 1 THEN g ELSE m_referenceCount[p] - 1
    ELSE m_referenceCount[r]

\* C5, first half: the release of p, the object the wrapper held
C5_Released(p, r) ==
    /\ p = NULL => nfree' = nfree
    /\ p # NULL =>
          /\ nfree'[p] = IF m_referenceCount[p] = 1 THEN nfree[p] + 1 ELSE nfree[p]
          /\ \A o \in Obj \ {p} : nfree'[o] = nfree[o]
          /\ (p # r /\ m_referenceCount[p] # 1) => m_referenceCount'[p] = m_referenceCount[p] - 1

\* C5, second half: the adoption of r, whose count was c before it
C5_Adopted(w, r, c) ==
    IF c = 0
    THEN /\ m_p'[w] \notin {r, NULL}
         /\ kind[m_p'[w]] = "none"
         /\ kind'[m_p'[w]] = "heap"
         /\ m_referenceCount'[m_p'[w]] = 1
         /\ m_referenceCount'[r] = 0
         /\ kind'[r] # "heap" \/ kind[r] = "heap"
    ELSE /\ m_p'[w] = r
         /\ m_referenceCount'[r] = c + 1
         /\ kind' = kind

\* C5: attach(r), and construction from a value, first release what the
\* wrapper held (decrement, delete at 0); then, if r's count is 0, the wrapper
\* holds a new clone of count 1 and r keeps count 0 and is not held; otherwise
\* the wrapper holds r and r's count is one more than before the adoption.
C5_AttachReleasesThenAdopts ==
    [][/\ \A w \in Wrapper, r \in Obj, g \in Garbage, v \in Val :
              Attach(w, r, g, v) =>
                  /\ C5_Released(m_p[w], r)
                  /\ C5_Adopted(w, r, CountAfterRelease(m_p[w], r, g))
       /\ \A w \in Wrapper, x \in Val, g \in Garbage :
              AttachNew(w, x, g) =>
                  /\ C5_Released(m_p[w], NewObj(Heap))
                  /\ C5_Adopted(w, NewObj(Heap), 0)
       /\ \A w \in Wrapper, r \in Obj, v \in Val :
              CtorValue(w, r, v) =>
                  /\ C5_Released(NULL, r)
                  /\ C5_Adopted(w, r, m_referenceCount[r])]_vars

\* attach(r) has released the last reference to one object and now shares r
C5_Witness ==
    /\ last.op = "attach"
    /\ \E o \in Obj : nfree[o] = 1 /\ Holders(o) = {}
    /\ m_p[last.w] # NULL
    /\ nfree[m_p[last.w]] = 0
    /\ m_referenceCount[m_p[last.w]] = 2

\* the state components C6 compares, after "release the old object, then
\* share rhs's object"
ReleaseThenShare(w, rhs, g) ==
    LET h1 == ReleaseHeld(Heap, m_p[w], g)
        q == m_p[rhs]
    IN  [p |-> q, h |-> IF q # NULL THEN [h1 EXCEPT !.rc[q] = @ + 1] ELSE h1]

\* C6: a = b changes nothing when a and b are the same wrapper; otherwise the
\* resulting pointer, counts and deleted objects are those of releasing a's
\* old object and then sharing b's object.
C6_AssignIsReleaseThenShare ==
    [][\A w, rhs \in Wrapper :
          (\E g \in Garbage : Assign(w, rhs, g)) =>
              IF w = rhs
              THEN m_p' = m_p /\ m_referenceCount' = m_referenceCount /\ nfree' = nfree
              ELSE \E g \in Garbage :
                      /\ m_p'[w] = ReleaseThenShare(w, rhs, g).p
                      /\ m_referenceCount' = ReleaseThenShare(w, rhs, g).h.rc
                      /\ nfree' = ReleaseThenShare(w, rhs, g).h.nf]_vars

\* C3: a write through any mutable view of a wrapper (the non-const get(),
\* operator-> or operator*) is not visible through another counted_ptr that
\* shared the object.
C3_WritesAreIsolated ==
    [][last'.op \in {"write_get", "write_arrow", "write_deref"} =>
          \A u \in Wrapper \ {last'.w} :
              (live[u] /\ m_p[u] = m_p[last'.w]) => val'[m_p'[u]] = val[m_p[u]]]_vars

\* the constructed member_ptr instances whose m_p is o
MemHolders(o) == {w \in Wrapper : mem_st[w] = "live" /\ mem_p[w] = o}

\* every object a member_ptr adopted is deleted exactly once, when its wrapper
\* is destroyed or reset replaces it, and not at all while release() has
\* handed it to the caller
AdoptedDeletedOnce ==
    \A o \in Obj :
        kind[o] # "none" =>
            nfree[o] = IF kind[o] = "caller" \/ MemHolders(o) # {} THEN 0 ELSE 1

\* C7: over any sequence of member_ptr construction, reset(p), release() and
\* destruction, every adopted object is deleted exactly once (at destruction
\* or when reset replaces it) unless release() handed it out first, and then
\* the wrapper never deletes it; reset(NULL) frees the held object and leaves
\* the wrapper empty.
C7_MemberDeletesOnce ==
    [][/\ AdoptedDeletedOnce'
       /\ \A w \in Wrapper :
              MemReset(w, NULL) =>
                  /\ mem_p'[w] = NULL
                  /\ mem_p[w] # NULL => nfree'[mem_p[w]] = nfree[mem_p[w]] + 1]_vars

\* C8: release() returns the address the wrapper held, leaves the wrapper
\* holding NULL and deletes nothing; while the address stays in the caller's
\* hands no destruction or reset of a wrapper frees it.
C8_ReleaseHandsOut ==
    [][/\ \A w \in Wrapper :
              MemRelease(w) =>
                  /\ last'.ret = mem_p[w]
                  /\ mem_p'[w] = NULL
                  /\ nfree' = nfree
       /\ \A o \in Obj :
              (kind[o] = "caller" /\ last'.op \in {"mem_dtor", "mem_reset"}) =>
                  nfree'[o] = nfree[o]]_vars

\* the only wrapper ever constructed has released its object and has then
\* been destroyed: the object is still not deleted
C8_Witness ==
    /\ last.op = "mem_dtor"
    /\ mem_p[last.w] = NULL
    /\ \A u \in Wrapper \ {last.w} : mem_st[u] = "none"
    /\ \E o \in Obj : kind[o] = "caller" /\ nfree[o] = 0

\* the constructed simple_ptr instances whose m_p is o
SimpleHolders(o) == {w \in Wrapper : sp_st[w] = "live" /\ sp_p[w] = o}

\* C9: ~simple_ptr() deletes the held object and then stores NULL in m_p, so
\* that over one or two runs of the destructor of one simple_ptr the object
\* is deleted exactly once.
C9_SimpleTeardownDeletesOnce ==
    /\ \A w \in Wrapper : sp_st[w] = "dead" => sp_p[w] = NULL
    /\ \A o \in Obj :
          kind[o] # "none" => nfree[o] = IF SimpleHolders(o) # {} THEN 0 ELSE 1

\* the destructor of the one simple_ptr of the run, which held the one
\* object of the run, has run a second time
C9_Witness ==
    /\ last.op = "simple_dtor_again"
    /\ \A u \in Wrapper \ {last.w} : sp_st[u] = "none"
    /\ Cardinality({o \in Obj : kind[o] # "none"}) = 1
    /\ \E o \in Obj : nfree[o] = 1

\* C10 (as stated): ~member_ptr() deletes the held object once and leaves m_p
\* NULL, so that a second run of the destructor does not delete the address
\* again.
C10_MemberTeardownDeletesOnce ==
    /\ \A w \in Wrapper : mem_st[w] = "dead" => mem_p[w] = NULL
    /\ \A o \in Obj : nfree[o] <= 1

\* C10 (amended): every run of ~member_ptr() deletes the address in m_p, if
\* it is not NULL, and leaves m_p as it was; a second run deletes the same
\* address again.
C10_MemberDtorKeepsPointer ==
    [][\A w \in Wrapper :
          (MemDtor(w) \/ MemDtorAgain(w)) =>
              /\ mem_p'[w] = mem_p[w]
              /\ \A o \in Obj :
                     nfree'[o] = IF o = mem_p[w] THEN nfree[o] + 1 ELSE nfree[o]]_vars

\* the destructor has run twice on a member_ptr and deleted its object twice
C10_Witness ==
    /\ last.op = "mem_dtor_again"
    /\ mem_p[last.w] # NULL
    /\ nfree[mem_p[last.w]] = 2

\* a deep copy of the object behind src has been stored in dst
DeepCopied(dst, src) ==
    IF mem_p[src] = NULL
    THEN mem_p'[dst] = NULL
    ELSE /\ mem_p'[dst] \notin {NULL, mem_p[src]}
         /\ nfree'[mem_p'[dst]] = 0 /\ nfree'[mem_p[src]] = 0
         /\ val'[mem_p'[dst]] = val'[mem_p[src]]
         /\ val'[mem_p[src]] = val[mem_p[src]]

\* C11: copy-constructing or copy-assigning a value_ptr from another leaves the
\* two holding objects at distinct addresses with equal values (both NULL when
\* the source holds NULL); no two constructed value_ptr instances ever hold the
\* same address; a write through one never changes the value held by another.
C11_ValueDeepCopy ==
    [][/\ \A w, rhs \in Wrapper : ValCtorCopy(w, rhs) => DeepCopied(w, rhs)
       /\ ValAssignAdopt => DeepCopied(asg.w, asg.rhs)
       /\ \A w \in Wrapper :
              (mem_st'[w] = "live" /\ mem_p'[w] # NULL) =>
                  \A u \in Wrapper \ {w} : ~(mem_st'[u] = "live" /\ mem_p'[u] = mem_p'[w])
       /\ \A w \in Wrapper, x \in Val :
              ValWrite(w, x) =>
                  \A u \in Wrapper \ {w} :
                      (mem_st[u] = "live" /\ mem_p[u] # NULL) =>
                          val'[mem_p'[u]] = val[mem_p[u]]]_vars

\* b was copied from a, then a write through b made its value differ from a's
C11_Witness ==
    /\ last.op = "val_write"
    /\ \E a \in Wrapper :
          /\ a # last.w /\ mem_st[a] = "live" /\ mem_st[last.w] = "live"
          /\ mem_p[a] # NULL /\ mem_p[last.w] # NULL /\ mem_p[a] # mem_p[last.w]
          /\ kind[mem_p[a]] = "heap" /\ kind[mem_p[last.w]] = "heap"
          /\ val[mem_p[a]] # val[mem_p[last.w]]

\* C12: when resize(newSize) returns, size() is newSize; every slot below both
\* the old size and newSize holds the address it held when the call began, and
\* the call did not delete that object; every slot at or above the old size is
\* empty.
C12_ResizeKeepsSlots ==
    [][ResizeFinish =>
          /\ m_size' = rz.newSize
          /\ \A i \in Slot :
                /\ (i < rz.oldSize /\ i < rz.newSize) =>
                      /\ m_ptr'[i] = rz.old[i]
                      /\ rz.old[i] # NULL => nfree'[rz.old[i]] = rz.nf[rz.old[i]]
                /\ (i >= rz.oldSize /\ i < rz.newSize) => m_ptr'[i] = NULL]_vars

\* a resize from one slot to two has returned: slot 0 holds a live object,
\* slot 1 is empty
C12_Witness ==
    /\ last.op = "resize"
    /\ m_size = 2
    /\ m_ptr[0] # NULL /\ nfree[m_ptr[0]] = 0
    /\ m_ptr[1] = NULL

\* the objects held in slots of the array m_ptr
InSlots == {m_ptr[i] : i \in {s \in Slot : s < m_size}} \ {NULL}

\* C13: a shrinking resize deletes each object of an old slot at or above
\* newSize exactly once and no object of a slot below newSize; and once the
\* container has been destroyed, every object that was placed in a slot and
\* not released to the caller has been deleted exactly once.
C13_ShrinkFreesOnce ==
    [][/\ ResizeFinish =>
              \A i \in Slot :
                  (i < rz.oldSize /\ rz.old[i] # NULL) =>
                      nfree'[rz.old[i]] =
                          IF i >= rz.newSize THEN rz.nf[rz.old[i]] + 1 ELSE rz.nf[rz.old[i]]
       /\ v_st' = "dead" => \A o \in Obj : kind'[o] = "heap" => nfree'[o] = 1]_vars

\* the slots of both arrays that exist right now, as <<array, index>>
SlotsNow ==
    {<<"m_ptr", i>> : i \in {s \in Slot : v_st = "live" /\ s < m_size}}
        \cup {<<"newPtr", i>> : i \in {s \in Slot : rz.pc # "idle" /\ s < rz.newSize}}
SlotPtr(s) == IF s[1] = "m_ptr" THEN m_ptr[s[2]] ELSE newPtr[s[2]]

\* C14: in every state, the steps inside resize() included, no object address
\* is held by two slots, counting the slots of the old and of the new array.
C14_NoTwoSlotsShare ==
    \A s, t \in SlotsNow : (s # t /\ SlotPtr(s) # NULL) => SlotPtr(s) # SlotPtr(t)

\* inside resize(): slot 0 has been moved to the new array and the object of
\* old slot 1 has been released but not yet stored in the new slot
C14_Witness ==
    /\ rz.pc = "released"
    /\ rz.i = 1
    /\ rz.tmp # NULL
    /\ newPtr[0] # NULL
    /\ m_ptr[0] = NULL /\ m_ptr[1] = NULL

\* no two constructed value_ptr instances hold one address after the step
NoValueAlias ==
    \A a, b \in Wrapper :
        (a # b /\ mem_st'[a] = "live" /\ mem_st'[b] = "live" /\ mem_p'[a] # NULL) =>
            mem_p'[a] # mem_p'[b]

\* operator= on one and the same wrapper copies nothing, frees nothing and
\* leaves the held object as it was
SelfAssignIsNoOp ==
    \A w \in Wrapper :
        ValAssignSelf(w) => mem_p' = mem_p /\ nfree' = nfree /\ kind' = kind /\ val' = val

\* C15 (as stated): lhs = rhs on distinct wrappers first deep-copies the
\* right-hand object, then frees the previous left-hand object, then adopts
\* the copy; at no step do lhs and rhs hold the same address; self-assignment
\* copies nothing, frees nothing and changes nothing.
C15_CopyFreeAdopt ==
    [][/\ (asg.pc # "idle" /\ mem_p'[asg.w] # mem_p[asg.w]) =>
              /\ asg.temp # NULL => kind[asg.temp] = "heap"
              /\ asg.old_p # NULL => nfree[asg.old_p] = 1
       /\ (asg.pc # "idle" /\ nfree' # nfree) => mem_p[asg.w] = asg.old_p
       /\ NoValueAlias
       /\ SelfAssignIsNoOp]_vars

\* C15 (amended): lhs = rhs on distinct wrappers first deep-copies the
\* right-hand object, then stores the copy in the left-hand wrapper, then
\* frees the previous left-hand object; at no step do lhs and rhs hold the
\* same address; self-assignment copies nothing, frees nothing and changes
\* nothing.
C15_CopyAdoptFree ==
    [][/\ (asg.pc # "idle" /\ mem_p'[asg.w] # mem_p[asg.w]) =>
              /\ mem_p'[asg.w] = asg.temp
              /\ asg.temp # NULL => kind[asg.temp] = "heap"
              /\ nfree' = nfree
              /\ asg.old_p # NULL => nfree[asg.old_p] = 0
       /\ (asg.pc # "idle" /\ nfree' # nfree) =>
              /\ mem_p[asg.w] = asg.temp
              /\ mem_p' = mem_p
              /\ nfree' = [nfree EXCEPT ![asg.old_p] = 1]
       /\ NoValueAlias
       /\ SelfAssignIsNoOp]_vars

\* an assignment between two wrappers that both held objects has returned:
\* the old left-hand object is deleted, the left-hand wrapper holds a copy
C15_Witness ==
    /\ last.op = "val_assign"
    /\ asg.pc = "idle"
    /\ \E r \in Wrapper \ {last.w} :
          /\ mem_st[r] = "live" /\ mem_p[r] # NULL
          /\ mem_p[last.w] \notin {NULL, mem_p[r]}
          /\ nfree[mem_p[last.w]] = 0
    /\ \E o \in Obj : nfree[o] = 1

\* no thread is inside a counted_ptr call
Quiescent == \A t \in Thread : thr[t].pc = "idle"

\* every object given to a counted_ptr is either held, not deleted, with a
\* count equal to its number of holders, or held by none and deleted once
CountsMatchHolders ==
    \A o \in Obj :
        kind[o] = "heap" =>
            IF Holders(o) # {}
            THEN nfree[o] = 0 /\ m_referenceCount[o] = Cardinality(Holders(o))
            ELSE nfree[o] = 1

\* C16: the count updates are load-then-store sequences.  When the calls of
\* two threads never overlap (the caller serializes them), the count of every
\* object equals its number of holders whenever no call is running, and an
\* object is deleted exactly when its last holder goes; a mismatch (a lost
\* update) is reachable only through calls that overlapped.
C16_SerializedCountsMatch ==
    (Quiescent /\ ~overlap) => CountsMatchHolders

\* two threads destroyed the two wrappers sharing one object at the same
\* time: one decrement was lost, no wrapper is left and the object, count 1,
\* was never deleted
C16_Witness ==
    /\ Quiescent
    /\ overlap
    /\ \A w \in Wrapper : ~live[w]
    /\ \E o \in Obj : kind[o] = "heap" /\ nfree[o] = 0 /\ m_referenceCount[o] = 1

\* C17: no constructed counted_ptr holds the address of a deleted object, and
\* attach(r) does not read the count of, increment the count of, or clone an
\* object that has been deleted - also when r is the object the wrapper holds.
C17_NoDanglingShared ==
    [][/\ \A w \in Wrapper :
              (live'[w] /\ m_p'[w] # NULL) => nfree'[m_p'[w]] = 0
       /\ \A w \in Wrapper, r \in Obj, g \in Garbage, v \in Val :
              Attach(w, r, g, v) => ReleaseHeld(Heap, m_p[w], g).nf[r] = 0]_vars

\* the calls whose allocation failed
FailedCalls == {"get_fail", "attach_fail", "ctor_value_fail", "val_assign_fail", "resize_fail"}

\* C18: when the clone, copy or allocation inside a call fails, every wrapper's
\* pointer, every count and the set of deleted objects are as they were before
\* the call.
C18_FailureChangesNothing ==
    [][last'.op \in FailedCalls =>
          /\ m_p' = m_p /\ live' = live
          /\ m_referenceCount' = m_referenceCount
          /\ nfree' = nfree
          /\ mem_p' = mem_p /\ mem_st' = mem_st
          /\ m_ptr' = m_ptr /\ m_size' = m_size]_vars

\* C19: after reset(p) with p not NULL the wrapper holds p and p is not
\* deleted, for every p, the address the wrapper already held included; the
\* same for a slot of vector_member_ptrs.
C19_ResetHoldsLiveObject ==
    [][/\ \A w \in Wrapper, p \in Obj :
              MemReset(w, p) => mem_p'[w] = p /\ nfree'[p] = 0
       /\ \A w \in Wrapper :
              MemResetNew(w) => mem_p'[w] # NULL /\ nfree'[mem_p'[w]] = 0
       /\ \A i \in Slot, p \in Obj :
              SlotReset(i, p) => m_ptr'[i] = p /\ nfree'[p] = 0]_vars

\* C20: once every counted_ptr has been destroyed, every object a counted_ptr
\* adopted from a raw pointer or made by clone() has been deleted, and no
\* object passed to attach by reference with count 0 has been.
C20_NoLeakWhenAllDestroyed ==
    (\A w \in Wrapper : ~live[w]) =>
        \A o \in Obj :
            /\ kind[o] = "heap" => nfree[o] >= 1
            /\ kind[o] = "caller" => nfree[o] = 0

\* all wrappers are destroyed; an object adopted from a raw pointer and a
\* clone made by attach are both deleted, the object attach cloned is not
C20_Witness ==
    /\ last.op = "dtor"
    /\ \A w \in Wrapper : ~live[w]
    /\ Cardinality({o \in Obj : kind[o] = "heap" /\ nfree[o] = 1}) = 2
    /\ \E o \in Obj : kind[o] = "caller" /\ nfree[o] = 0

====
